---- MODULE Spec2Model ----
(***************************************************************************)
(* A model of the swap server client (swap_server_client.go): construction *)
(* of the gRPC connection, the six remote operations with their response    *)
(* decoding and validation, the per-call deadline context, and Close.       *)
(*                                                                          *)
(* Byte strings are sequences of 0..255; Go strings that are decoded (the   *)
(* hexadecimal payment destination) are sequences of one-character strings. *)
(* The elliptic curve is y^2 = x^3 + CurveB over the prime field FieldP, a  *)
(* scaled-down curve of the same shape as secp256k1 (FieldP = 3 mod 4,      *)
(* FieldP = 1 mod 3, CurveB = 7 a non-residue so that x = 0 is no point).   *)
(* Time is a discrete clock; GlobalCallTimeout is in clock ticks.           *)
(***************************************************************************)
EXTENDS Integers, Sequences, FiniteSets, TLC

VARIABLES conn, dialOpts, ctor, closeCalls, closeRaised, call, now

vars == <<conn, dialOpts, ctor, closeCalls, closeRaised, call, now>>

\* ------------------------------------------------------------------ bounds

\* The clock runs from 0 to MaxTime.
MaxTime == 3

\* Close is called at most MaxCloses times.
MaxCloses == 2

\* Server byte strings are up to MaxLenDelta bytes shorter or longer than a key.
MaxLenDelta == 1

\* --------------------------------------------------------------- constants

\* [33]byte: the size of a compressed public key buffer.
KeyLen == 33

\* The field prime and the curve constant of btcec.S256(), scaled.
FieldP == 463

CurveB == 7

\* The fixed duration every call is bounded by, in clock ticks.
GlobalCallTimeout == 2

\* ----------------------------------------------------------------- helpers

Min(a, b) == IF a <= b THEN a ELSE b

Max(a, b) == IF a >= b THEN a ELSE b

Zeros(n) == [i \in 1..n |-> 0]

Take(s, n) == SubSeq(s, 1, Min(n, Len(s)))

\* Go's copy(dst[:], src) into a zeroed [KeyLen]byte: the first
\* min(KeyLen, len(src)) bytes are copied, the rest of dst stays zero.
CopyToKeyArray(src) ==
    [i \in 1..KeyLen |-> IF i <= Len(src) THEN src[i] ELSE 0]

\* ------------------------------------------------------ encoding/hex

HexDigits == <<"0", "1", "2", "3", "4", "5", "6", "7",
               "8", "9", "a", "b", "c", "d", "e", "f">>

UpperDigits == <<"0", "1", "2", "3", "4", "5", "6", "7",
                 "8", "9", "A", "B", "C", "D", "E", "F">>

\* fromHexChar: the value of a hexadecimal digit of either case, -1 if none.
fromHexChar(c) ==
    IF \E i \in 1..16 : HexDigits[i] = c
    THEN (CHOOSE i \in 1..16 : HexDigits[i] = c) - 1
    ELSE IF \E i \in 1..16 : UpperDigits[i] = c
         THEN (CHOOSE i \in 1..16 : UpperDigits[i] = c) - 1
         ELSE -1

\* hex.DecodeString: pairs are decoded left to right; the first invalid
\* character ends the decoding with InvalidByteError, an odd length (after
\* its last character was found valid) with ErrLength.  The bytes decoded so
\* far are returned together with the error.
RECURSIVE hexDecodeFrom(_, _, _)
hexDecodeFrom(s, j, acc) ==
    IF j <= Len(s)
    THEN IF fromHexChar(s[j - 1]) < 0 \/ fromHexChar(s[j]) < 0
         THEN [bytes |-> acc, err |-> "encoding/hex: invalid byte"]
         ELSE hexDecodeFrom(s, j + 2,
                  Append(acc, 16 * fromHexChar(s[j - 1]) + fromHexChar(s[j])))
    ELSE IF Len(s) % 2 = 1
         THEN IF fromHexChar(s[j - 1]) < 0
              THEN [bytes |-> acc, err |-> "encoding/hex: invalid byte"]
              ELSE [bytes |-> acc, err |-> "encoding/hex: odd length hex string"]
         ELSE [bytes |-> acc, err |-> ""]

DecodeString(s) == hexDecodeFrom(s, 2, <<>>)

\* hex.EncodeToString: two lower-case digits per byte.
EncodeToString(b) ==
    [i \in 1..(2 * Len(b)) |->
        IF i % 2 = 1 THEN HexDigits[(b[(i + 1) \div 2] \div 16) + 1]
                     ELSE HexDigits[(b[i \div 2] % 16) + 1]]

\* strings.ToLower on a digit string.
ToLower(s) ==
    [i \in 1..Len(s) |->
        IF \E k \in 1..16 : UpperDigits[k] = s[i]
        THEN HexDigits[CHOOSE k \in 1..16 : UpperDigits[k] = s[i]]
        ELSE s[i]]

\* ------------------------------------------------------ btcec.ParsePubKey

RECURSIVE ModExp(_, _, _)
ModExp(b, e, m) ==
    IF e = 0 THEN 1 % m
    ELSE LET h == ModExp(b, e \div 2, m)
             sq == (h * h) % m
         IN  IF e % 2 = 1 THEN (sq * (b % m)) % m ELSE sq

\* new(big.Int).SetBytes(pubKeyStr[1:33]): the big-endian value of the 32
\* bytes after the format byte.  Values that do not fit two bytes are all
\* represented by 256 * 256, which is above FieldP like each of them.
XCoord(k) ==
    IF \E i \in 2..(KeyLen - 2) : k[i] # 0
    THEN 256 * 256
    ELSE 256 * k[KeyLen - 1] + k[KeyLen]

\* decompressPoint: y = +-sqrt(x^3 + B) by exponentiation with (P + 1) / 4,
\* negated when its parity is not the requested one, then checked.
decompressPoint(x, ybit) ==
    LET xr == x % FieldP
        x3 == (xr * xr * xr + CurveB) % FieldP
        y0 == ModExp(x3, (FieldP + 1) \div 4, FieldP)
        y  == IF ybit # (y0 % 2 = 1) THEN FieldP - y0 ELSE y0
    IN  IF (y * y) % FieldP # x3
        THEN [y |-> 0, err |-> "invalid square root"]
        ELSE IF ybit # (y % 2 = 1)
             THEN [y |-> 0, err |-> "ybit doesn't match oddness"]
             ELSE [y |-> y, err |-> ""]

IsOnCurve(x, y) == (y * y) % FieldP = (x * x * x + CurveB) % FieldP

\* ParsePubKey(pubKeyStr, S256()): "" when the bytes are a public key, the
\* error otherwise.  Only the compressed length reaches the curve; every
\* other length ends in the default branch (the uncompressed and hybrid
\* lengths cannot come out of a [KeyLen]byte).
ParsePubKey(pubKeyStr) ==
    IF Len(pubKeyStr) = 0 THEN "pubkey string is empty"
    ELSE IF Len(pubKeyStr) # KeyLen THEN "invalid pub key length"
    ELSE LET format == pubKeyStr[1]
             ybit   == (format % 2) = 1
             x      == XCoord(pubKeyStr)
             d      == decompressPoint(x, ybit)
         IN  IF format - (format % 2) # 2
             THEN "invalid magic in compressed pubkey string"
             ELSE IF d.err # "" THEN d.err
             ELSE IF x >= FieldP THEN "pubkey X parameter is >= to P"
             ELSE IF d.y >= FieldP THEN "pubkey Y parameter is >= to P"
             ELSE IF ~IsOnCurve(x, d.y) THEN "pubkey isn't on secp256k1 curve"
             ELSE ""

\* ------------------------------------------------- what the server may send

NilResult == [kind |-> "nil"]

\* The byte strings the server may return as a key: a format byte, zero
\* bytes, two low bytes of the x coordinate, then trailing bytes, cut to
\* every length from KeyLen - MaxLenDelta to KeyLen + MaxLenDelta, and the
\* empty string.
KeyBytes(format, hi, lo, n) ==
    Take(<<format>> \o Zeros(KeyLen - 3) \o <<hi, lo>>
            \o [i \in 1..MaxLenDelta |-> 9], n)

ServerKeys ==
    {<<>>} \cup
    { KeyBytes(f, x[1], x[2], n) :
        f \in {0, 2, 3, 4},
        x \in {<<0, 0>>, <<0, 1>>, <<0, 4>>, <<1, 0>>, <<1, 1>>, <<2, 0>>},
        n \in (KeyLen - MaxLenDelta)..(KeyLen + MaxLenDelta) }

\* The strings the server may return as the payment destination: a first
\* character, a filler and a last character, of every length around the
\* 2 * KeyLen characters of an encoded key, the empty string, and the
\* encoding of a key on the curve.
DestString(first, fill, last, n) ==
    [i \in 1..n |-> IF i = 1 THEN first ELSE IF i = n THEN last ELSE fill]

ServerDests ==
    {<<>>, EncodeToString(KeyBytes(2, 0, 1, KeyLen))} \cup
    { DestString(first, fill, last, n) :
        first \in {"0", "A", "g"}, fill \in {"3"},
        last \in {"0", "f", "g"},
        n \in (2 * (KeyLen - MaxLenDelta))..(2 * (KeyLen + MaxLenDelta)) }

Amounts == {0, 250000}

Expiries == {144}

\* Errors the remote call can end with on its own account.
RemoteErrors == {"rpc: Unavailable", "rpc: PermissionDenied"}

ErrDeadlineExceeded == "rpc: DeadlineExceeded"

ErrCanceled == "rpc: Canceled"

ErrConnClosing == "rpc: Canceled: grpc: the client connection is closing"

Ops == {"GetLoopOutTerms", "GetLoopOutQuote", "GetLoopInTerms",
        "GetLoopInQuote", "NewLoopOutSwap", "NewLoopInSwap"}

\* The responses of the server's six methods (looprpc wire messages).
ServerResponses(op) ==
    CASE op = "GetLoopOutTerms" ->
           { [kind |-> "ServerLoopOutTerms", MinSwapAmount |-> a,
              MaxSwapAmount |-> b] : a \in Amounts, b \in Amounts }
      [] op = "GetLoopInTerms" ->
           { [kind |-> "ServerLoopInTerms", MinSwapAmount |-> a,
              MaxSwapAmount |-> b] : a \in Amounts, b \in Amounts }
      [] op = "GetLoopOutQuote" ->
           { [kind |-> "ServerLoopOutQuote", PrepayAmt |-> 1337,
              SwapFee |-> 100, CltvDelta |-> 144, SwapPaymentDest |-> d] :
              d \in ServerDests }
      [] op = "GetLoopInQuote" ->
           { [kind |-> "ServerLoopInQuote", SwapFee |-> a, CltvDelta |-> e] :
              a \in Amounts, e \in Expiries }
      [] op = "NewLoopOutSwap" ->
           { [kind |-> "ServerLoopOutResponse", SwapInvoice |-> "lnbc1swap",
              PrepayInvoice |-> "lnbc1prepay", SenderKey |-> k,
              Expiry |-> e] : k \in ServerKeys, e \in Expiries }
      [] op = "NewLoopInSwap" ->
           { [kind |-> "ServerLoopInResponse", ReceiverKey |-> k,
              Expiry |-> e] : k \in ServerKeys, e \in Expiries }

\* What the generated stub hands back: a response and no error, or an error
\* and no response.
RemoteOk(resp) == [err |-> "", resp |-> resp]

RemoteFail(e) == [err |-> e, resp |-> NilResult]

\* --------------------------------------- the operations' response handling

Ok(result) == [result |-> result, err |-> ""]

Fail(e) == [result |-> NilResult, err |-> e]

GetLoopOutTermsResult(remote) ==
    IF remote.err # "" THEN Fail(remote.err)
    ELSE Ok([kind |-> "LoopOutTerms",
             MinSwapAmount |-> remote.resp.MinSwapAmount,
             MaxSwapAmount |-> remote.resp.MaxSwapAmount])

GetLoopOutQuoteResult_NoLengthCheck(remote) ==
    IF remote.err # "" THEN Fail(remote.err)
    ELSE LET dec == DecodeString(remote.resp.SwapPaymentDest)
         IN  IF dec.err # "" THEN Fail(dec.err)
             ELSE Ok([kind |-> "LoopOutQuote",
                      PrepayAmount |-> remote.resp.PrepayAmt,
                      SwapFee |-> remote.resp.SwapFee,
                      CltvDelta |-> remote.resp.CltvDelta,
                      SwapPaymentDest |-> CopyToKeyArray(dec.bytes)])

\* GetLoopOutQuote after the remote call: the destination is hex-decoded,
\* must be KeyLen bytes long, and is copied into the quote.
GetLoopOutQuoteResult(remote) ==
    IF remote.err # "" THEN Fail(remote.err)
    ELSE LET dec == DecodeString(remote.resp.SwapPaymentDest)
         IN  IF dec.err # "" THEN Fail(dec.err)
             ELSE IF Len(dec.bytes) # KeyLen THEN Fail("invalid payment dest")
             ELSE Ok([kind |-> "LoopOutQuote",
                      PrepayAmount |-> remote.resp.PrepayAmt,
                      SwapFee |-> remote.resp.SwapFee,
                      CltvDelta |-> remote.resp.CltvDelta,
                      SwapPaymentDest |-> CopyToKeyArray(dec.bytes)])

GetLoopInTermsResult(remote) ==
    IF remote.err # "" THEN Fail(remote.err)
    ELSE Ok([kind |-> "LoopInTerms",
             MinSwapAmount |-> remote.resp.MinSwapAmount,
             MaxSwapAmount |-> remote.resp.MaxSwapAmount])

GetLoopInQuoteResult(remote) ==
    IF remote.err # "" THEN Fail(remote.err)
    ELSE Ok([kind |-> "LoopInQuote",
             SwapFee |-> remote.resp.SwapFee,
             CltvDelta |-> remote.resp.CltvDelta])

NewLoopOutSwapResult(remote) ==
    IF remote.err # "" THEN Fail(remote.err)
    ELSE LET senderKey == CopyToKeyArray(remote.resp.SenderKey)
         IN  IF ParsePubKey(senderKey) # ""
             THEN Fail("invalid sender key: " \o ParsePubKey(senderKey))
             ELSE Ok([kind |-> "newLoopOutResponse",
                      swapInvoice |-> remote.resp.SwapInvoice,
                      prepayInvoice |-> remote.resp.PrepayInvoice,
                      senderKey |-> senderKey,
                      expiry |-> remote.resp.Expiry])

NewLoopInSwapResult(remote) ==
    IF remote.err # "" THEN Fail(remote.err)
    ELSE LET receiverKey == CopyToKeyArray(remote.resp.ReceiverKey)
         IN  IF ParsePubKey(receiverKey) # ""
             THEN Fail("invalid sender key: " \o ParsePubKey(receiverKey))
             ELSE Ok([kind |-> "newLoopInResponse",
                      receiverKey |-> receiverKey,
                      expiry |-> remote.resp.Expiry])

OpResult(op, remote) ==
    CASE op = "GetLoopOutTerms" -> GetLoopOutTermsResult(remote)
      [] op = "GetLoopOutQuote" -> GetLoopOutQuoteResult(remote)
      [] op = "GetLoopInTerms"  -> GetLoopInTermsResult(remote)
      [] op = "GetLoopInQuote"  -> GetLoopInQuoteResult(remote)
      [] op = "NewLoopOutSwap"  -> NewLoopOutSwapResult(remote)
      [] op = "NewLoopInSwap"   -> NewLoopInSwapResult(remote)

\* ------------------------------------------------------ getSwapServerConn

TlsPaths == {"", "tls.cert", "missing.cert"}

\* The certificate files credentials.NewClientTLSFromFile can load.
LoadableCerts == {"tls.cert"}

Addresses == {"swap.example:11010"}

WithUnaryInterceptor == [opt |-> "WithUnaryInterceptor", creds |-> "", path |-> ""]

WithInsecure == [opt |-> "WithInsecure", creds |-> "", path |-> ""]

WithPinnedCredentials(path) ==
    [opt |-> "WithTransportCredentials", creds |-> "NewClientTLSFromFile",
     path |-> path]

WithDefaultCredentials ==
    [opt |-> "WithTransportCredentials", creds |-> "NewTLS", path |-> ""]

\* grpc.Dial(address, opts...) and the error wrapping after it.
Dial(address, opts, loaded, dialOk) ==
    [opts |-> opts, loaded |-> loaded, dialed |-> <<address>>,
     conn |-> dialOk,
     err |-> IF dialOk THEN "" ELSE "unable to connect to RPC server"]

getSwapServerConn_PathFirst(address, insecure, tlsPath, dialOk) ==
    LET opts == <<WithUnaryInterceptor>>
    IN  IF tlsPath # ""
        THEN IF tlsPath \notin LoadableCerts
             THEN [opts |-> opts, loaded |-> <<tlsPath>>, dialed |-> <<>>,
                   conn |-> FALSE, err |-> "certificate: cannot load"]
             ELSE Dial(address, Append(opts, WithPinnedCredentials(tlsPath)),
                       <<tlsPath>>, dialOk)
        ELSE IF insecure
             THEN Dial(address, Append(opts, WithInsecure), <<>>, dialOk)
             ELSE Dial(address, Append(opts, WithDefaultCredentials), <<>>,
                       dialOk)

getSwapServerConn_DialAnyway(address, insecure, tlsPath, dialOk) ==
    LET opts == <<WithUnaryInterceptor>>
    IN  IF insecure
        THEN Dial(address, Append(opts, WithInsecure), <<>>, dialOk)
        ELSE IF tlsPath # ""
             THEN IF tlsPath \notin LoadableCerts
                  THEN [Dial(address, Append(opts, WithDefaultCredentials),
                             <<tlsPath>>, dialOk)
                        EXCEPT !.conn = FALSE,
                               !.err = "certificate: cannot load"]
                  ELSE Dial(address,
                            Append(opts, WithPinnedCredentials(tlsPath)),
                            <<tlsPath>>, dialOk)
             ELSE Dial(address, Append(opts, WithDefaultCredentials), <<>>,
                       dialOk)

\* getSwapServerConn: the options start with the interceptor; the switch
\* appends one transport option (first match wins); a certificate that does
\* not load returns before grpc.Dial.  The result records the options, the
\* certificate files loaded, the addresses dialled, and whether a connection
\* came back.
getSwapServerConn(address, insecure, tlsPath, dialOk) ==
    LET opts == <<WithUnaryInterceptor>>
    IN  IF insecure
        THEN Dial(address, Append(opts, WithInsecure), <<>>, dialOk)
        ELSE IF tlsPath # ""
             THEN IF tlsPath \notin LoadableCerts
                  THEN [opts |-> opts, loaded |-> <<tlsPath>>,
                        dialed |-> <<>>, conn |-> FALSE,
                        err |-> "certificate: cannot load"]
                  ELSE Dial(address,
                            Append(opts, WithPinnedCredentials(tlsPath)),
                            <<tlsPath>>, dialOk)
             ELSE Dial(address, Append(opts, WithDefaultCredentials), <<>>,
                       dialOk)

\* ------------------------------------------------------- the call context

\* A caller's context: an optional deadline and whether it was cancelled.
Contexts ==
    [hasDeadline : {FALSE}, deadline : {0}, cancelled : BOOLEAN] \cup
    [hasDeadline : {TRUE}, deadline : 0..(MaxTime + 1), cancelled : BOOLEAN]

Background == [hasDeadline |-> FALSE, deadline |-> 0, cancelled |-> FALSE]

\* context.WithTimeout(parent, d) at time t: the derived context's deadline
\* is the earlier of the parent's and t + d, and it is done when its parent
\* is.  The derived context keeps its parent.
WithTimeout(parent, t, d) ==
    [deadline |-> IF parent.hasDeadline THEN Min(parent.deadline, t + d)
                  ELSE t + d,
     parent |-> parent]

rpcContext_Background(ctx, t) == WithTimeout(Background, t, GlobalCallTimeout)

\* rpcCtx, rpcCancel := context.WithTimeout(ctx, globalCallTimeout), the
\* first statement of each of the six operations.
rpcContext(ctx, t) == WithTimeout(ctx, t, GlobalCallTimeout)

\* Cancelling the caller's context reaches every context derived from it.
CancelParent(rpcCtx) == [rpcCtx EXCEPT !.parent.cancelled = TRUE]

\* ctx.Err() of the derived context at time t ("" while it is not done).
CtxErrs(rpcCtx, t) ==
    (IF rpcCtx.parent.cancelled THEN {ErrCanceled} ELSE {}) \cup
    (IF t >= rpcCtx.deadline THEN {ErrDeadlineExceeded} ELSE {})

\* ---------------------------------------------------------------- the state

NoRemote == [err |-> "", resp |-> NilResult]

IdleCall ==
    [op |-> "none", pc |-> "idle", ctx |-> Background,
     rpcCtx |-> rpcContext(Background, 0), start |-> 0, end |-> 0,
     sent |-> 0, remote |-> NoRemote, result |-> NilResult, err |-> "",
     connClosed |-> FALSE]

NoCtor ==
    [called |-> FALSE, insecure |-> FALSE, tlsPath |-> "",
     opts |-> <<>>, loaded |-> <<>>, dialed |-> <<>>, client |-> FALSE,
     err |-> ""]

Init ==
    /\ conn = "none"
    /\ dialOpts = <<>>
    /\ ctor = NoCtor
    /\ closeCalls = 0
    /\ closeRaised = ""
    /\ call = IdleCall
    /\ now = 0

\* newSwapServerClient: the connection is made by getSwapServerConn; an
\* error returns no client.
NewSwapServerClient ==
    /\ conn = "none"
    /\ \E address \in Addresses, insecure \in BOOLEAN, tlsPath \in TlsPaths,
          dialOk \in BOOLEAN :
          LET r == getSwapServerConn(address, insecure, tlsPath, dialOk)
          IN  /\ ctor' = [called |-> TRUE, insecure |-> insecure,
                          tlsPath |-> tlsPath, opts |-> r.opts,
                          loaded |-> r.loaded, dialed |-> r.dialed,
                          client |-> r.conn /\ r.err = "", err |-> r.err]
              /\ conn' = IF r.conn /\ r.err = "" THEN "open" ELSE "none"
              /\ dialOpts' = IF r.conn /\ r.err = "" THEN r.opts ELSE <<>>
    /\ UNCHANGED <<closeCalls, closeRaised, call, now>>

\* How the remote call of an operation can end in the current state (the
\* gRPC runtime): on a closed connection, or with a done context, it ends
\* with that error; otherwise with a response of the server or an error.
RpcOutcomes(c) ==
    LET aborts == (IF conn = "closed" THEN {ErrConnClosing} ELSE {})
                    \cup CtxErrs(c.rpcCtx, now)
    IN  IF aborts # {}
        THEN { RemoteFail(e) : e \in aborts }
        ELSE { RemoteOk(r) : r \in ServerResponses(c.op) }
               \cup { RemoteFail(e) : e \in RemoteErrors }

\* The caller enters an operation: the call context is derived and the one
\* request of the operation is handed to the stub.
Issue(op, ctx, t) ==
    [op |-> op, pc |-> "inflight", ctx |-> ctx,
     rpcCtx |-> rpcContext(ctx, t), start |-> t, end |-> t, sent |-> 1,
     remote |-> NoRemote, result |-> NilResult, err |-> "",
     connClosed |-> FALSE]

Return_Retry(c, remote, out, t, closed) ==
    IF remote.err # "" /\ c.sent < 2
    THEN [c EXCEPT !.sent = @ + 1]
    ELSE [c EXCEPT !.pc = "returned", !.remote = remote,
                   !.result = out.result, !.err = out.err, !.end = t,
                   !.connClosed = closed]

\* The operation returns what its response handling made of the remote
\* call's outcome; nothing is sent again.
Return(c, remote, out, t, closed) ==
    [c EXCEPT !.pc = "returned", !.remote = remote, !.result = out.result,
              !.err = out.err, !.end = t, !.connClosed = closed]

BeginCall(op) ==
    /\ conn # "none"
    /\ call.pc = "idle"
    /\ \E ctx \in Contexts : call' = Issue(op, ctx, now)
    /\ UNCHANGED <<conn, dialOpts, ctor, closeCalls, closeRaised, now>>

EndCall(op) ==
    /\ call.pc = "inflight"
    /\ call.op = op
    /\ \E remote \in RpcOutcomes(call) :
          call' = Return(call, remote, OpResult(op, remote), now,
                         conn = "closed")
    /\ UNCHANGED <<conn, dialOpts, ctor, closeCalls, closeRaised, now>>

GetLoopOutTerms == BeginCall("GetLoopOutTerms") \/ EndCall("GetLoopOutTerms")

GetLoopOutQuote == BeginCall("GetLoopOutQuote") \/ EndCall("GetLoopOutQuote")

GetLoopInTerms == BeginCall("GetLoopInTerms") \/ EndCall("GetLoopInTerms")

GetLoopInQuote == BeginCall("GetLoopInQuote") \/ EndCall("GetLoopInQuote")

NewLoopOutSwap == BeginCall("NewLoopOutSwap") \/ EndCall("NewLoopOutSwap")

NewLoopInSwap == BeginCall("NewLoopInSwap") \/ EndCall("NewLoopInSwap")

\* The caller is done with what the operation returned (the result is a
\* transient value); it may then call again.
Discard ==
    /\ call.pc = "returned"
    /\ call' = IdleCall
    /\ UNCHANGED <<conn, dialOpts, ctor, closeCalls, closeRaised, now>>

\* The caller cancels the context of the call in flight.
CancelCtx ==
    /\ call.pc = "inflight"
    /\ ~call.ctx.cancelled
    /\ call' = [call EXCEPT !.ctx.cancelled = TRUE,
                            !.rpcCtx = CancelParent(@)]
    /\ UNCHANGED <<conn, dialOpts, ctor, closeCalls, closeRaised, now>>

CloseReturn_Propagate(connErr) == connErr

\* Close has no result: the error of s.conn.Close() is dropped.
CloseReturn(connErr) == ""

\* Close: grpc's ClientConn.Close closes the connection, and on a connection
\* already closed returns ErrClientConnClosing.
Close ==
    /\ conn # "none"
    /\ closeCalls < MaxCloses
    /\ conn' = "closed"
    /\ closeCalls' = closeCalls + 1
    /\ closeRaised' = CloseReturn(IF conn = "closed"
                                  THEN "grpc: the client connection is closing"
                                  ELSE "")
    /\ UNCHANGED <<dialOpts, ctor, call, now>>

\* Time passes, but not past the moment a call in flight is to be aborted:
\* the runtime ends a call whose context is done.
Tick ==
    /\ now < MaxTime
    /\ ~(call.pc = "inflight" /\ CtxErrs(call.rpcCtx, now) # {})
    /\ now' = now + 1
    /\ UNCHANGED <<conn, dialOpts, ctor, closeCalls, closeRaised, call>>

Next ==
    \/ NewSwapServerClient
    \/ GetLoopOutTerms
    \/ GetLoopOutQuote
    \/ GetLoopInTerms
    \/ GetLoopInQuote
    \/ NewLoopOutSwap
    \/ NewLoopInSwap
    \/ Discard
    \/ CancelCtx
    \/ Close
    \/ Tick

Spec == Init /\ [][Next]_vars

\* ------------------------------------------------------------ the claims

\* A valid compressed public key: KeyLen bytes, a format byte of 2 or 3, an
\* x coordinate below the field prime for which the curve has a point whose
\* y coordinate has the parity the format byte names.
IsValidCompressedKey(b) ==
    /\ Len(b) = KeyLen
    /\ b[1] \in {2, 3}
    /\ XCoord(b) < FieldP
    /\ \E y \in 0..(FieldP - 1) :
          IsOnCurve(XCoord(b), y) /\ (y % 2 = 1) = (b[1] = 3)

\* A string of hexadecimal digits that encodes exactly KeyLen bytes.
IsHexOfKeyLen(str) ==
    /\ Len(str) = 2 * KeyLen
    /\ \A i \in 1..Len(str) : fromHexChar(str[i]) >= 0

Returned(op) == call.pc = "returned" /\ call.op = op

RemoteSucceeded == call.remote.err = ""

Failed == call.err # "" /\ call.result = NilResult

\* C1: whenever the remote call of NewLoopOutSwap succeeds, the operation
\* fails with no response if the server's senderKey is not a valid
\* compressed public key, and otherwise returns a response whose senderKey,
\* swapInvoice, prepayInvoice and expiry are the server's; a returned
\* response never carries an invalid key.
C1_NewLoopOutSwapValidatesSenderKey ==
    (Returned("NewLoopOutSwap") /\ RemoteSucceeded) =>
        /\ IF IsValidCompressedKey(call.remote.resp.SenderKey)
           THEN /\ call.err = ""
                /\ call.result.kind = "newLoopOutResponse"
                /\ call.result.senderKey = call.remote.resp.SenderKey
                /\ call.result.swapInvoice = call.remote.resp.SwapInvoice
                /\ call.result.prepayInvoice = call.remote.resp.PrepayInvoice
                /\ call.result.expiry = call.remote.resp.Expiry
           ELSE Failed
        /\ call.result # NilResult =>
              IsValidCompressedKey(call.result.senderKey)

\* The key of the server's response to a swap creation call.
ServerKeyOf(c) ==
    IF c.op = "NewLoopOutSwap" THEN c.remote.resp.SenderKey
    ELSE c.remote.resp.ReceiverKey

\* C2: server-key validation in the swap-creation calls accepts a byte
\* string exactly when it is a valid KeyLen-byte compressed key: every
\* invalid KeyLen-byte string and every string of another length (shorter,
\* empty, or longer, also one that starts with a valid key) is rejected.
C2_ServerKeyValidation ==
    ((Returned("NewLoopOutSwap") \/ Returned("NewLoopInSwap"))
        /\ RemoteSucceeded) =>
        ((call.err = "") <=> IsValidCompressedKey(ServerKeyOf(call)))

\* C3: NewLoopInSwap fails on a receiverKey exactly when NewLoopOutSwap
\* fails on the same bytes as senderKey, and on success its response's
\* receiverKey is the server's key and its expiry the server's expiry.
C3_NewLoopInSwapLikeNewLoopOutSwap ==
    (Returned("NewLoopInSwap") /\ RemoteSucceeded) =>
        /\ (call.err # "") <=>
              (NewLoopOutSwapResult(RemoteOk(
                   [kind |-> "ServerLoopOutResponse",
                    SwapInvoice |-> "lnbc1swap",
                    PrepayInvoice |-> "lnbc1prepay",
                    SenderKey |-> call.remote.resp.ReceiverKey,
                    Expiry |-> call.remote.resp.Expiry])).err # "")
        /\ call.err = "" =>
              /\ call.result.kind = "newLoopInResponse"
              /\ call.result.receiverKey = call.remote.resp.ReceiverKey
              /\ call.result.expiry = call.remote.resp.Expiry

\* C4: GetLoopOutQuote succeeds exactly when the remote call succeeds and
\* swapPaymentDest is hexadecimal for exactly KeyLen bytes; the returned
\* SwapPaymentDest is then those bytes (it encodes back to the string the
\* server sent, case aside), whether or not they are a point of the curve;
\* every other outcome is an error and no quote.
C4_GetLoopOutQuoteDecodesDest ==
    Returned("GetLoopOutQuote") =>
        /\ (call.err = "") <=>
              (RemoteSucceeded
                 /\ IsHexOfKeyLen(call.remote.resp.SwapPaymentDest))
        /\ call.err = "" =>
              /\ call.result.kind = "LoopOutQuote"
              /\ Len(call.result.SwapPaymentDest) = KeyLen
              /\ EncodeToString(call.result.SwapPaymentDest)
                    = ToLower(call.remote.resp.SwapPaymentDest)
              /\ call.result.PrepayAmount = call.remote.resp.PrepayAmt
              /\ call.result.SwapFee = call.remote.resp.SwapFee
              /\ call.result.CltvDelta = call.remote.resp.CltvDelta
        /\ call.err # "" => call.result = NilResult

C4_Witness ==
    /\ Returned("GetLoopOutQuote")
    /\ call.err = ""
    /\ call.result.kind = "LoopOutQuote"
    /\ ~IsValidCompressedKey(call.result.SwapPaymentDest)

\* The transport options among a sequence of dial options.
TransportOpts(opts) ==
    { i \in 1..Len(opts) : opts[i].opt \in {"WithInsecure",
                                            "WithTransportCredentials"} }

\* C5: the transport mode is a function of (insecure, tlsPath) alone and
\* exactly one: insecure gives the no-security option for every path, and
\* loads no certificate; otherwise a non-empty path selects credentials
\* pinned to that path (the path is the one loaded, and a channel made from
\* it carries those credentials); otherwise the default credentials; and
\* the interceptor is the first option in every mode.
C5_TransportModeSelection ==
    ctor.called =>
        /\ ctor.opts[1] = WithUnaryInterceptor
        /\ ctor.insecure =>
              /\ ctor.opts = <<WithUnaryInterceptor, WithInsecure>>
              /\ ctor.loaded = <<>>
        /\ (~ctor.insecure /\ ctor.tlsPath # "") =>
              /\ ctor.loaded = <<ctor.tlsPath>>
              /\ IF ctor.tlsPath \in LoadableCerts
                 THEN ctor.opts = <<WithUnaryInterceptor,
                                    WithPinnedCredentials(ctor.tlsPath)>>
                 ELSE ~ctor.client /\ TransportOpts(ctor.opts) = {}
        /\ (~ctor.insecure /\ ctor.tlsPath = "") =>
              /\ ctor.opts = <<WithUnaryInterceptor, WithDefaultCredentials>>
              /\ ctor.loaded = <<>>
        /\ ctor.client =>
              /\ dialOpts = ctor.opts
              /\ Cardinality(TransportOpts(dialOpts)) = 1
              /\ dialOpts[1] = WithUnaryInterceptor

C5_Witness ==
    /\ ctor.called
    /\ ctor.insecure
    /\ ctor.tlsPath = "tls.cert"
    /\ ctor.client
    /\ dialOpts = <<WithUnaryInterceptor, WithInsecure>>

\* C6: construction with insecure unset and a certificate path that does
\* not load fails with the certificate error, returns no client, and dials
\* no address.
C6_NoDialAfterFailedCertificateLoad ==
    (ctor.called /\ ~ctor.insecure /\ ctor.tlsPath # ""
        /\ ctor.tlsPath \notin LoadableCerts) =>
        /\ ctor.err = "certificate: cannot load"
        /\ ~ctor.client
        /\ conn = "none"
        /\ ctor.dialed = <<>>

C6_Witness ==
    /\ ctor.called
    /\ ~ctor.insecure
    /\ ctor.tlsPath = "missing.cert"
    /\ ctor.loaded = <<"missing.cert">>
    /\ ctor.err # ""

\* The latest time a call may still be running: the stricter of the
\* caller's deadline and start + GlobalCallTimeout, and no earlier than the
\* call's start (a call is not aborted before it is made).
AbortBy(c) ==
    Max(c.start,
        IF c.ctx.hasDeadline
        THEN Min(c.ctx.deadline, c.start + GlobalCallTimeout)
        ELSE c.start + GlobalCallTimeout)

\* C7: for each operation, the remote call runs no later than the stricter
\* of the caller's deadline and start + GlobalCallTimeout, and a call whose
\* caller's context was cancelled ends in an error.
C7_StricterDeadlineApplies ==
    /\ call.pc = "inflight" => now <= AbortBy(call)
    /\ call.pc = "returned" =>
          /\ call.end <= AbortBy(call)
          /\ call.ctx.cancelled => Failed

C7_Witness ==
    /\ call.pc = "returned"
    /\ call.ctx.hasDeadline
    /\ call.start < call.ctx.deadline
    /\ call.ctx.deadline < call.start + GlobalCallTimeout
    /\ call.end = call.ctx.deadline
    /\ call.err = ErrDeadlineExceeded

\* C8: an invocation issues exactly one remote request, whatever the
\* outcome.
C8_ExactlyOneRequest ==
    call.pc \in {"inflight", "returned"} => call.sent = 1

C8_Witness ==
    /\ call.pc = "returned"
    /\ call.sent = 1
    /\ call.remote.err \in RemoteErrors
    /\ call.err = call.remote.err

\* A payload the wire contract does not allow: a payment destination that
\* is not hexadecimal for KeyLen bytes, a key that is not a valid compressed
\* public key.
StructurallyInvalid(c) ==
    CASE c.op = "GetLoopOutQuote" ->
           ~IsHexOfKeyLen(c.remote.resp.SwapPaymentDest)
      [] c.op \in {"NewLoopOutSwap", "NewLoopInSwap"} ->
           ~IsValidCompressedKey(ServerKeyOf(c))
      [] OTHER -> FALSE

\* C9: a failed remote call is returned as that same error with no result;
\* a successful remote call with a structurally invalid payload is returned
\* as an error with no result; an operation returns a result or an error,
\* never both and never neither.
C9_NoErrorSwallowed ==
    call.pc = "returned" =>
        /\ ~RemoteSucceeded =>
              call.err = call.remote.err /\ call.result = NilResult
        /\ (RemoteSucceeded /\ StructurallyInvalid(call)) => Failed
        /\ (call.result = NilResult) <=> (call.err # "")

\* C10: once Close was called, the connection is closed whatever the number
\* of Close calls, none of them raises a failure to its caller, and a call
\* that returns while the connection is closed returns an error and no
\* result.
C10_CloseIdempotent ==
    /\ closeCalls >= 1 => (conn = "closed" /\ closeRaised = "")
    /\ (call.pc = "returned" /\ call.connClosed) => Failed

C10_Witness ==
    /\ closeCalls = 2
    /\ conn = "closed"
    /\ call.pc = "returned"
    /\ call.connClosed
    /\ call.err = ErrConnClosing

====
